---- MODULE Spec2Model ----
(***************************************************************************)
(* Model of the Profiler class of py_profiler (profiler/profiler.py, in    *)
(* its python2 and python3 variants).  A Profiler keeps a dict of running  *)
(* events keyed by a uuid and a dict of finished events keyed by the       *)
(* event name.  Event objects are Python objects: they live on a heap and  *)
(* the two dicts hold references to them, so that the in-place mutation   *)
(* done by stop() and the identity of each object are part of the model.   *)
(***************************************************************************)
EXTENDS Integers, Sequences, FiniteSets

\* ---------------------------------------------------------------- bounds
\* number of start() calls in one behaviour
MaxStarts == 2
\* longest list of finished events the statistics are drawn over
MaxLen == 3
\* largest duration in such a list, in microseconds
MaxDuration == 3

\* ------------------------------------------------------- program constants
\* datetime.timedelta keeps days, seconds and 0 <= microseconds < 1000000
MicrosPerSecond == 1000000

\* the uuid values: as many as there are start() calls
Tokens == 1..MaxStarts
Names == {"", "a"}
Implementations == {"python2", "python3"}

\* The instants at which the wall clock is read: two consecutive microseconds
\* at the start of the run and two more than a second later.  The sub-second
\* part grows from one instant to the next, so the sub-second part of a
\* difference stays small and its square stays within TLC's 32-bit integers.
ClockValues == {0, 1, MicrosPerSecond + 2, MicrosPerSecond + 3}

\* Optional[T]: None is the empty set, a present value x is {x}
None == {}
Some(x) == {x}
TheValue(opt) == CHOOSE x \in opt : TRUE

VARIABLES
    impl,        \* which of the two profiler.py files is running
    clock,       \* the wall clock at its last reading, in microseconds
    heap,        \* the Event objects ever constructed, indexed by reference
    running,     \* self.__running_events : uuid -> reference
    finished,    \* self.__finished_events : name -> list of references
    last,        \* the last call made on the profiler, and what it returned
    start_log,   \* history: the uuids returned by start(), in call order
    stop_log,    \* history: <<uid, reference>> of each stop() that found its uid
    frames,      \* thread -> the call it is in: position and local variables
    list_ids     \* name -> identity of the list object __finished_events holds

vars == <<impl, clock, heap, running, finished, last, start_log, stop_log,
          frames, list_ids>>

Range(s) == { s[i] : i \in DOMAIN s }

\* ------------------------------------------------------------ Event class
\* Event with `duration: Optional[int] = 0` for its default
Event_zero_duration(name, start_time) ==
    [name |-> name, start_time |-> start_time, end_time |-> None, duration |-> Some(0)]

Event(name, start_time) ==
    [name |-> name, start_time |-> start_time, end_time |-> None, duration |-> None]

\* a wall clock that is set back between two readings
now_set_back == ClockValues

\* datetime.now(): the possible readings of the wall clock, given the last
\* one; time passes between two readings
now == { t \in ClockValues : t >= clock }

\* (end_time - start_time).microseconds : the timedelta is normalised to
\* days, seconds and microseconds, and only the last field is read
timedelta_microseconds(end_time, start_time) ==
    (end_time - start_time) % MicrosPerSecond

\* a generator that hands out again the uuid of an event that has stopped
uuid4_recycled == Tokens \ DOMAIN running

\* uuid.uuid4(): a random 122-bit value; the outcomes are the uuids that no
\* earlier call returned
uuid4 == Tokens \ Range(start_log)

\* ------------------------------------------------------------- statistics
RECURSIVE GCD(_, _)
GCD(a, b) == IF b = 0 THEN a ELSE GCD(b, a % b)

\* the rational n/d (d > 0) in lowest terms: the value of a Python number
Frac(n, d) ==
    LET g == GCD(IF n < 0 THEN -n ELSE n, d)
    IN  [num |-> n \div g, den |-> d \div g]

\* float(x) of an int
float(x) == Frac(x, 1)

RECURSIVE sum(_)
sum(values) ==
    IF values = <<>> THEN 0 ELSE Head(values) + sum(Tail(values))

RECURSIVE sum_sq(_)
sum_sq(values) ==
    IF values = <<>> THEN 0 ELSE Head(values) * Head(values) + sum_sq(Tail(values))

\* builtin min(): keeps the first smallest item seen
RECURSIVE min_from(_, _)
min_from(best, values) ==
    IF values = <<>> THEN best
    ELSE min_from(IF Head(values) < best THEN Head(values) ELSE best, Tail(values))

min(values) == min_from(Head(values), Tail(values))

\* builtin max(): keeps the first largest item seen
RECURSIVE max_from(_, _)
max_from(best, values) ==
    IF values = <<>> THEN best
    ELSE max_from(IF Head(values) > best THEN Head(values) ELSE best, Tail(values))

max(values) == max_from(Head(values), Tail(values))

\* sorted(): a stable ascending sort
RECURSIVE insert(_, _)
insert(x, s) ==
    IF s = <<>> THEN <<x>>
    ELSE IF x < Head(s) THEN <<x>> \o s
    ELSE <<Head(s)>> \o insert(x, Tail(s))

RECURSIVE sorted(_)
sorted(values) ==
    IF values = <<>> THEN <<>>
    ELSE insert(values[Len(values)], sorted(SubSeq(values, 1, Len(values) - 1)))

\* sum(values) / len(values) on Python 2 ints: the floor of the quotient
mean_floor(values) == Frac(sum(values) \div Len(values), 1)

\* statistics.mean / numpy.mean
mean(values) == Frac(sum(values), Len(values))

\* statistics.median / numpy.median
median(values) ==
    LET data == sorted(values)
        n == Len(data)
        i == n \div 2
    IN  IF n % 2 = 1 THEN Frac(data[i + 1], 1)
        ELSE Frac(data[i] + data[i + 1], 2)

\* sum of squared deviations from the mean, times n
n_ss(values) == Len(values) * sum_sq(values) - sum(values) * sum(values)

\* statistics.variance: the sample variance, ss / (n - 1)
statistics_variance(values) ==
    Frac(n_ss(values), Len(values) * (Len(values) - 1))

\* numpy.var with the default ddof=0: the population variance, ss / n
numpy_var(values) ==
    Frac(n_ss(values), Len(values) * Len(values))

\* a square root is kept symbolic: the number whose square is the radicand
sqrt(x) == [radicand |-> x]

\* statistics.stdev = sqrt(statistics.variance)
statistics_stdev(values) == sqrt(statistics_variance(values))

\* numpy.std = sqrt(numpy.var)
numpy_std(values) == sqrt(numpy_var(values))

\* __get_stats_from_array that also reports the length of a single value
get_stats_from_array_single_len(py, values) ==
    IF Len(values) = 0 THEN <<>>
    ELSE IF Len(values) = 1 THEN [value |-> float(values[1]), len |-> 1]
    ELSE [len      |-> Len(values),
          min      |-> min(values),
          max      |-> max(values),
          mean     |-> mean(values),
          median   |-> median(values),
          stdev    |-> IF py = "python3" THEN statistics_stdev(values)
                       ELSE numpy_std(values),
          variance |-> IF py = "python3" THEN statistics_variance(values)
                       ELSE numpy_var(values)]

\* Profiler.__get_stats_from_array
get_stats_from_array(py, values) ==
    IF Len(values) = 0 THEN <<>>
    ELSE IF Len(values) = 1 THEN [value |-> float(values[1])]
    ELSE [len      |-> Len(values),
          min      |-> min(values),
          max      |-> max(values),
          mean     |-> mean(values),
          median   |-> median(values),
          stdev    |-> IF py = "python3" THEN statistics_stdev(values)
                       ELSE numpy_std(values),
          variance |-> IF py = "python3" THEN statistics_variance(values)
                       ELSE numpy_var(values)]

\* map(lambda e: e.duration, events)
durations(h, events) ==
    [i \in 1..Len(events) |-> TheValue(h[events[i]].duration)]

\* finished_events_stats over every event ever started, a running event
\* counting with the duration 0
finished_events_stats_all_events(py, h, fin) ==
    [name \in { h[r].name : r \in DOMAIN h } |->
        LET refs == SelectSeq([r \in DOMAIN h |-> r], LAMBDA r : h[r].name = name)
        IN  get_stats_from_array(py,
                [i \in 1..Len(refs) |->
                    IF h[refs[i]].duration = None THEN 0
                    ELSE TheValue(h[refs[i]].duration)])]

\* Profiler.finished_events_stats
finished_events_stats(py, h, fin) ==
    [name \in DOMAIN fin |-> get_stats_from_array(py, durations(h, fin[name]))]

\* __save_finished_event without its `if name not in` test: the list of the
\* name is created afresh on every call
save_finished_event_reset(fin, ref, name) ==
    [n \in DOMAIN fin \cup {name} |-> IF n = name THEN <<ref>> ELSE fin[n]]

\* __save_finished_event with insert(0, event) for append(event)
save_finished_event_prepend(fin, ref, name) ==
    [n \in DOMAIN fin \cup {name} |->
        IF n = name
        THEN <<ref>> \o (IF name \in DOMAIN fin THEN fin[name] ELSE <<>>)
        ELSE fin[n]]

\* __save_finished_event that creates the list of every name it is given and
\* appends only to a list that was there before
save_finished_event_late_append(fin, ref, name) ==
    IF name \notin DOMAIN fin
    THEN [n \in DOMAIN fin \cup {name} |-> IF n = name THEN <<>> ELSE fin[n]]
    ELSE [fin EXCEPT ![name] = Append(fin[name], ref)]

\* Profiler.__save_finished_event
save_finished_event(fin, ref, name) ==
    LET fin1 == IF name \notin DOMAIN fin
                THEN [n \in DOMAIN fin \cup {name} |->
                        IF n = name THEN <<>> ELSE fin[n]]
                ELSE fin
    IN  [fin1 EXCEPT ![name] = Append(fin1[name], ref)]

\* self.__running_events[uid] for self.__running_events.pop(uid): the key stays
pop_keep(run, uid) == run

\* self.__running_events.pop(uid): the dict without the key
pop(run, uid) == [t \in DOMAIN run \ {uid} |-> run[t]]

\* self.__running_events = {id: event}: the other running events are dropped
setitem_replace(run, id, ref) == [t \in {id} |-> ref]

\* self.__running_events[id] = event: the dict with the key set
setitem(run, id, ref) ==
    [t \in DOMAIN run \cup {id} |-> IF t = id THEN ref ELSE run[t]]

\* stop() without its `event.duration = ...` line
finalize_no_duration(event, end_time) ==
    [event EXCEPT !.end_time = Some(end_time)]

\* the in-place assignments of stop() to the popped event
finalize(event, end_time) ==
    [event EXCEPT !.end_time = Some(end_time),
                  !.duration = Some(timedelta_microseconds(end_time, event.start_time))]

\* what a call leaves in `last`: the call, its argument, the value returned
\* and the exception raised (None when it returned)
Returned(op, arg, ret) == [op |-> op, arg |-> arg, ret |-> ret, raised |-> None]

\* --------------------------------------------------------------- the calls
\* Profiler.__init__
Init ==
    /\ impl \in Implementations
    /\ clock = 0
    /\ heap = <<>>
    /\ running = <<>>
    /\ finished = <<>>
    /\ last = Returned("init", None, None)
    /\ start_log = <<>>
    /\ stop_log = <<>>
    /\ frames = <<>>
    /\ list_ids = <<>>

\* Profiler.start
Start(name) ==
    /\ Len(start_log) < MaxStarts
    /\ \E id \in uuid4, start_time \in now :
        LET ref == Len(heap) + 1
        IN  /\ clock' = start_time
            /\ heap' = Append(heap, Event(name, start_time))
            /\ running' = setitem(running, id, ref)
            /\ last' = Returned("start", name, id)
            /\ start_log' = Append(start_log, id)
    /\ UNCHANGED <<impl, finished, stop_log, frames, list_ids>>

\* Profiler.stop, without its `if uid not in ...: return None`: the pop raises
StopNotFound_raises(uid) ==
    /\ last' = [op |-> "stop", arg |-> uid, ret |-> None, raised |-> Some("KeyError")]
    /\ UNCHANGED <<impl, clock, heap, running, finished, start_log, stop_log, frames, list_ids>>

\* Profiler.stop, the uid is not a key of __running_events
StopNotFound(uid) ==
    /\ last' = Returned("stop", uid, None)
    /\ UNCHANGED <<impl, clock, heap, running, finished, start_log, stop_log, frames, list_ids>>

\* Profiler.stop, the uid is a key of __running_events
StopFound(uid) ==
    \E end_time \in now :
        LET ref == running[uid]
        IN  /\ running' = pop(running, uid)
            /\ clock' = end_time
            /\ heap' = [heap EXCEPT ![ref] = finalize(heap[ref], end_time)]
            /\ finished' = save_finished_event(finished, ref, heap[ref].name)
            /\ last' = Returned("stop", uid, Some(ref))
            /\ stop_log' = Append(stop_log, <<uid, ref>>)
            /\ UNCHANGED <<impl, start_log, frames, list_ids>>

\* Profiler.stop
Stop(uid) ==
    IF uid \notin DOMAIN running THEN StopNotFound(uid) ELSE StopFound(uid)

\* Profiler.finished_events (property)
FinishedEvents ==
    /\ last' = Returned("finished_events", None, finished)
    /\ UNCHANGED <<impl, clock, heap, running, finished, start_log, stop_log, frames, list_ids>>

\* finished_events_stats that hands the finished events over and forgets them
Stats_draining ==
    /\ last' = Returned("finished_events_stats", None,
                        finished_events_stats(impl, heap, finished))
    /\ finished' = <<>>
    /\ UNCHANGED <<impl, clock, heap, running, start_log, stop_log, frames, list_ids>>

\* Profiler.finished_events_stats (property)
Stats ==
    /\ last' = Returned("finished_events_stats", None,
                        finished_events_stats(impl, heap, finished))
    /\ UNCHANGED <<impl, clock, heap, running, finished, start_log, stop_log, frames, list_ids>>

Next ==
    \/ \E name \in Names : Start(name)
    \/ \E uid \in Tokens : Stop(uid)
    \/ FinishedEvents
    \/ Stats

Spec == Init /\ [][Next]_vars

\* ------------------------------------------- the statistics on their own
\* The profiler after the events of `evs` (a list of <<name, elapsed>>) ran one
\* after the other, each started when the one before it stopped, under the
\* uuids 1, 2, ...: the state start(); stop(); start(); stop(); ... leads to.
RECURSIVE after_runs(_)
after_runs(evs) ==
    IF evs = <<>>
    THEN [clock |-> 0, heap |-> <<>>, finished |-> <<>>,
          start_log |-> <<>>, stop_log |-> <<>>]
    ELSE LET n == Len(evs)
             before == after_runs(SubSeq(evs, 1, n - 1))
             name == evs[n][1]
             end_time == before.clock + evs[n][2]
         IN  [clock |-> end_time,
              heap |-> Append(before.heap,
                              finalize(Event(name, before.clock), end_time)),
              finished |-> save_finished_event(before.finished, n, name),
              start_log |-> Append(before.start_log, n),
              stop_log |-> Append(before.stop_log, <<n, n>>)]

StatsInputs ==
    UNION { [1..n -> Names \X (0..MaxDuration)] : n \in 0..MaxLen }

InitStats ==
    /\ impl \in Implementations
    /\ running = <<>>
    /\ frames = <<>>
    /\ list_ids = <<>>
    /\ last = Returned("init", None, None)
    /\ \E evs \in StatsInputs :
        LET s == after_runs(evs)
        IN  /\ clock = s.clock
            /\ heap = s.heap
            /\ finished = s.finished
            /\ start_log = s.start_log
            /\ stop_log = s.stop_log

NextStats ==
    \/ FinishedEvents
    \/ Stats

SpecStats == InitStats /\ [][NextStats]_vars

\* ------------------------------------------------ calls from two threads
\* The class takes no lock, and the interpreter may switch threads between any
\* two bytecodes: a call made from a thread is a sequence of steps, one for
\* each access to __running_events or __finished_events, and the steps of two
\* calls interleave.  Each thread makes one call, stop(uid) or
\* finished_events_stats.
Threads == {1, 2}

\* the frame of a call that has not run yet
Call(op, arg) ==
    [op |-> op, arg |-> arg, pc |-> "call",
     event  |-> None,    \* stop: the popped event
     name   |-> None,    \* the name at hand
     lst    |-> 0,       \* __save_finished_event: the list object fetched
     size   |-> 0,       \* the dict iterator: the size of the dict at its creation
     items  |-> {},      \* the dict iterator: the names still to come
     result |-> <<>>,    \* finished_events_stats: the dict built so far
     ret    |-> None,
     raised |-> None]

\* The profiler of `s` after start() was called for each of `names` in turn,
\* the clock standing still: the uuid of an event is its position in the heap.
RECURSIVE after_starts(_, _)
after_starts(s, names) ==
    IF names = <<>>
    THEN [clock |-> s.clock, heap |-> s.heap, running |-> <<>>,
          finished |-> s.finished, start_log |-> s.start_log,
          stop_log |-> s.stop_log]
    ELSE LET n == Len(names)
             before == after_starts(s, SubSeq(names, 1, n - 1))
             id == Len(before.heap) + 1
         IN  [before EXCEPT
                !.heap = Append(before.heap, Event(names[n], before.clock)),
                !.running = setitem(before.running, id, id),
                !.start_log = Append(before.start_log, id)]

\* what ran before the threads were started: nothing, or one event of a
\* microsecond
ThreadInputs == {<<>>} \cup { <<<<n, 1>>>> : n \in Names }

\* MaxStarts events are running; each thread is about to stop one of them
\* (calls[t] says which) or to ask for the statistics (calls[t] = 0)
InitThreads ==
    /\ impl \in Implementations
    /\ last = Returned("init", None, None)
    /\ \E evs \in ThreadInputs, names \in [1..MaxStarts -> Names],
          calls \in [Threads -> 0..MaxStarts] :
        LET s == after_starts(after_runs(evs), names)
        IN  /\ clock = s.clock
            /\ heap = s.heap
            /\ running = s.running
            /\ finished = s.finished
            /\ start_log = s.start_log
            /\ stop_log = s.stop_log
            /\ list_ids = [n \in DOMAIN s.finished |-> 0]
            /\ frames = [t \in Threads |->
                            IF calls[t] = 0
                            THEN Call("finished_events_stats", None)
                            ELSE Call("stop", Len(evs) + calls[t])]

\* stop: `if uid not in self.__running_events.keys(): return None`
stop_check(t) ==
    /\ frames[t].op = "stop"
    /\ frames[t].pc = "call"
    /\ frames' = [frames EXCEPT ![t] =
                    IF frames[t].arg \notin DOMAIN running
                    THEN [@ EXCEPT !.pc = "done", !.ret = None]
                    ELSE [@ EXCEPT !.pc = "pop"]]
    /\ UNCHANGED <<impl, clock, heap, running, finished, last, start_log,
                   stop_log, list_ids>>

\* stop: `event = self.__running_events.pop(uid)`; dict.pop of a missing key
\* with no default raises KeyError, which stop does not catch
stop_pop(t) ==
    /\ frames[t].pc = "pop"
    /\ LET uid == frames[t].arg
       IN  IF uid \in DOMAIN running
           THEN /\ running' = pop(running, uid)
                /\ stop_log' = Append(stop_log, <<uid, running[uid]>>)
                /\ frames' = [frames EXCEPT ![t] =
                                [@ EXCEPT !.pc = "finalize",
                                          !.event = Some(running[uid])]]
           ELSE /\ frames' = [frames EXCEPT ![t] =
                                [@ EXCEPT !.pc = "done",
                                          !.raised = Some("KeyError")]]
                /\ UNCHANGED <<running, stop_log>>
    /\ UNCHANGED <<impl, clock, heap, finished, last, start_log, list_ids>>

\* stop: `end_time = datetime.now()` up to `event.duration = ...`; the event
\* is out of __running_events and not yet in __finished_events, no other
\* thread reaches it
stop_finalize(t) ==
    /\ frames[t].pc = "finalize"
    /\ \E end_time \in now :
        LET ref == TheValue(frames[t].event)
        IN  /\ clock' = end_time
            /\ heap' = [heap EXCEPT ![ref] = finalize(heap[ref], end_time)]
    /\ frames' = [frames EXCEPT ![t] = [@ EXCEPT !.pc = "save"]]
    /\ UNCHANGED <<impl, running, finished, last, start_log, stop_log, list_ids>>

\* __save_finished_event: `name = event.name` and the test
\* `if name not in self.__finished_events`
save_test(t) ==
    /\ frames[t].pc = "save"
    /\ LET name == heap[TheValue(frames[t].event)].name
       IN  frames' = [frames EXCEPT ![t] =
                        [@ EXCEPT !.name = Some(name),
                                  !.pc = IF name \notin DOMAIN finished
                                         THEN "new_list" ELSE "getitem"]]
    /\ UNCHANGED <<impl, clock, heap, running, finished, last, start_log,
                   stop_log, list_ids>>

\* __save_finished_event: `self.__finished_events[name] = []` binds the name
\* to a new, empty list, whatever it was bound to
save_new_list(t) ==
    /\ frames[t].pc = "new_list"
    /\ LET name == TheValue(frames[t].name)
       IN  /\ finished' = [n \in DOMAIN finished \cup {name} |->
                              IF n = name THEN <<>> ELSE finished[n]]
           /\ list_ids' = [n \in DOMAIN list_ids \cup {name} |->
                              IF n = name THEN t ELSE list_ids[n]]
    /\ frames' = [frames EXCEPT ![t] = [@ EXCEPT !.pc = "getitem"]]
    /\ UNCHANGED <<impl, clock, heap, running, last, start_log, stop_log>>

\* __save_finished_event: the `self.__finished_events[name]` of the last line
\* fetches the list the name is bound to now
save_getitem(t) ==
    /\ frames[t].pc = "getitem"
    /\ frames' = [frames EXCEPT ![t] =
                    [@ EXCEPT !.lst = list_ids[TheValue(frames[t].name)],
                              !.pc = "append"]]
    /\ UNCHANGED <<impl, clock, heap, running, finished, last, start_log,
                   stop_log, list_ids>>

\* __save_finished_event: `.append(event)` on the list fetched, which shows in
\* __finished_events only if the name is still bound to that list; then
\* stop does `return event`
save_append(t) ==
    /\ frames[t].pc = "append"
    /\ LET name == TheValue(frames[t].name)
           ref == TheValue(frames[t].event)
       IN  /\ finished' = IF list_ids[name] = frames[t].lst
                          THEN [finished EXCEPT ![name] = Append(@, ref)]
                          ELSE finished
           /\ frames' = [frames EXCEPT ![t] =
                            [@ EXCEPT !.pc = "done", !.ret = Some(ref)]]
    /\ UNCHANGED <<impl, clock, heap, running, last, start_log, stop_log, list_ids>>

\* finished_events_stats: `self.__finished_events.items()` as the loop starts.
\* python2 copies the items into a list; python3 makes a view whose iterator
\* remembers the size of the dict.  No key is ever deleted, so the names to
\* come are the keys of this moment in both.
stats_iter(t) ==
    /\ frames[t].op = "finished_events_stats"
    /\ frames[t].pc = "call"
    /\ frames' = [frames EXCEPT ![t] =
                    [@ EXCEPT !.pc = "next",
                              !.items = DOMAIN finished,
                              !.size = Cardinality(DOMAIN finished)]]
    /\ UNCHANGED <<impl, clock, heap, running, finished, last, start_log,
                   stop_log, list_ids>>

\* finished_events_stats: the loop asks for the next item.  The python3
\* iterator raises RuntimeError("dictionary changed size during iteration")
\* when the dict has another size than at its creation; the loop ends and
\* `return result` runs when no item is left; the order of the keys is that
\* of the dict, which depends on the interpreter.
stats_next(t) ==
    /\ frames[t].pc = "next"
    /\ IF impl = "python3" /\ Cardinality(DOMAIN finished) # frames[t].size
       THEN frames' = [frames EXCEPT ![t] =
                        [@ EXCEPT !.pc = "done", !.raised = Some("RuntimeError")]]
       ELSE IF frames[t].items = {}
       THEN frames' = [frames EXCEPT ![t] =
                        [@ EXCEPT !.pc = "done", !.ret = frames[t].result]]
       ELSE \E n \in frames[t].items :
                frames' = [frames EXCEPT ![t] =
                            [@ EXCEPT !.pc = "body",
                                      !.name = Some(n),
                                      !.items = frames[t].items \ {n}]]
    /\ UNCHANGED <<impl, clock, heap, running, finished, last, start_log,
                   stop_log, list_ids>>

\* finished_events_stats: the body of the loop reads the list of the name as
\* it is now and stores its summary (one other thread cannot rebind a name
\* that is bound, so the list of the item is the one the name is bound to)
stats_body(t) ==
    /\ frames[t].pc = "body"
    /\ LET n == TheValue(frames[t].name)
           summary == get_stats_from_array(impl, durations(heap, finished[n]))
       IN  frames' = [frames EXCEPT ![t] =
                        [@ EXCEPT !.pc = "next",
                                  !.result = [m \in DOMAIN frames[t].result \cup {n} |->
                                                IF m = n THEN summary
                                                ELSE frames[t].result[m]]]]
    /\ UNCHANGED <<impl, clock, heap, running, finished, last, start_log,
                   stop_log, list_ids>>

NextThreads ==
    \E t \in Threads :
        \/ stop_check(t)
        \/ stop_pop(t)
        \/ stop_finalize(t)
        \/ save_test(t)
        \/ save_new_list(t)
        \/ save_getitem(t)
        \/ save_append(t)
        \/ stats_iter(t)
        \/ stats_next(t)
        \/ stats_body(t)

SpecThreads == InitThreads /\ [][NextThreads]_vars

\* ------------------------------------------------------------- properties
\* the references of the events named n whose stop() succeeded, in stop order
StoppedRefs(n) ==
    LET Named(e) == heap[e[2]].name = n
        hits == SelectSeq(stop_log, Named)
    IN  [i \in 1..Len(hits) |-> hits[i][2]]

\* the names of the events whose stop() succeeded
StoppedNames == { heap[stop_log[i][2]].name : i \in DOMAIN stop_log }

\* C1: a stop(token) whose token is not a key of `running` (never issued, or
\* stopped before) returns None, raises nothing and leaves `running`,
\* `finished` and every event record as they were.
C1_StopUnknownIsNoOp ==
    [][ (last'.op = "stop" /\ last'.arg \notin DOMAIN running) =>
            /\ last'.ret = None
            /\ last'.raised = None
            /\ running' = running
            /\ finished' = finished
            /\ heap' = heap ]_vars

\* a second stop of a token that an earlier stop consumed has returned None
C1_Witness ==
    /\ last.op = "stop"
    /\ last.ret = None
    /\ \E i \in DOMAIN stop_log : stop_log[i][1] = last.arg

\* C2: the tokens returned by the start calls of one tracker are pairwise
\* distinct, whatever stop calls came between them.
C2_TokensDistinct ==
    \A i, j \in DOMAIN start_log : i # j => start_log[i] # start_log[j]

\* a start that follows the stop of an earlier event has returned its token
C2_Witness ==
    /\ last.op = "start"
    /\ Len(start_log) >= 2
    /\ \E i \in DOMAIN stop_log : stop_log[i][1] = start_log[1]

\* C3: a stop(token) whose token is a key of `running` removes that entry and
\* no other, appends the finalized record to the end of the `finished`
\* sequence of the record's name (a new sequence when the name is new),
\* returns that record and leaves the other entries of `running` and the
\* sequences of the other names as they were.
C3_StopMovesOneRecord ==
    [][ (last'.op = "stop" /\ last'.arg \in DOMAIN running) =>
            LET uid == last'.arg
                ref == running[uid]
                name == heap[ref].name
                old == IF name \in DOMAIN finished THEN finished[name] ELSE <<>>
            IN  /\ DOMAIN running' = DOMAIN running \ {uid}
                /\ \A t \in DOMAIN running' :
                        /\ running'[t] = running[t]
                        /\ heap'[running[t]] = heap[running[t]]
                /\ DOMAIN finished' = DOMAIN finished \cup {name}
                /\ finished'[name] = Append(old, ref)
                /\ \A n \in DOMAIN finished : n # name => finished'[n] = finished[n]
                /\ last'.ret = Some(ref)
                /\ last'.raised = None
                /\ heap'[ref].name = name
                /\ heap'[ref].start_time = heap[ref].start_time
                /\ heap'[ref].end_time # None
                /\ heap'[ref].duration # None ]_vars

\* a stop has moved the second record of a name while another event runs on
C3_Witness ==
    /\ last.op = "stop"
    /\ last.ret # None
    /\ \E n \in DOMAIN finished :
            /\ Len(finished[n]) = 2
            /\ last.ret = Some(finished[n][2])

\* C4: start(name) succeeds for every name, the empty one and one in use
\* included: it adds one entry to `running` under the token it returns, the
\* entry's record is a new one with that name and neither end_time nor
\* duration, and `finished` and the other entries of `running` stay as they
\* were.
C4_StartAddsOneRecord ==
    /\ [](Len(start_log) < MaxStarts => \A name \in Names : ENABLED Start(name))
    /\ [][ last'.op = "start" =>
               LET id == last'.ret
               IN  /\ id \notin DOMAIN running
                   /\ DOMAIN running' = DOMAIN running \cup {id}
                   /\ running'[id] \notin DOMAIN heap
                   /\ heap'[running'[id]].name = last'.arg
                   /\ heap'[running'[id]].end_time = None
                   /\ heap'[running'[id]].duration = None
                   /\ last'.raised = None
                   /\ finished' = finished
                   /\ \A t \in DOMAIN running :
                           /\ running'[t] = running[t]
                           /\ heap'[running[t]] = heap[running[t]] ]_vars

\* a start with the empty name has returned while an earlier event of the
\* same name is still running
C4_Witness ==
    /\ last.op = "start"
    /\ last.arg = ""
    /\ \E t \in DOMAIN running :
            /\ t # last.ret
            /\ heap[running[t]].name = ""

\* C5: once a stop has taken a token out of `running`, the token is never a
\* key of `running` again, its record is never referred to from `running`
\* again, the record stays in the `finished` sequence of its name, and no
\* record is finished twice.
C5_FinishedIsTerminal ==
    \A i \in DOMAIN stop_log :
        LET uid == stop_log[i][1]
            ref == stop_log[i][2]
        IN  /\ uid \notin DOMAIN running
            /\ \A t \in DOMAIN running : running[t] # ref
            /\ heap[ref].name \in DOMAIN finished
            /\ ref \in Range(finished[heap[ref].name])
            /\ \A j \in DOMAIN stop_log : stop_log[j][2] = ref => j = i

\* after an event was stopped, another was started and a stop of the first
\* one's token was tried again
C5_Witness ==
    /\ stop_log # <<>>
    /\ running # <<>>
    /\ last.op = "stop"
    /\ last.arg = stop_log[1][1]
    /\ Len(start_log) = MaxStarts

\* C6: in every state every event record has a duration exactly when it has
\* an end_time: the records in `running` have neither, the records in
\* `finished` have both.
C6_DurationIffEndTime ==
    /\ \A ref \in DOMAIN heap :
            (heap[ref].duration # None) <=> (heap[ref].end_time # None)
    /\ \A t \in DOMAIN running :
            /\ heap[running[t]].end_time = None
            /\ heap[running[t]].duration = None
    /\ \A n \in DOMAIN finished : \A i \in DOMAIN finished[n] :
            /\ heap[finished[n][i]].end_time # None
            /\ heap[finished[n][i]].duration # None

\* one event is running while another has finished
C6_Witness ==
    /\ running # <<>>
    /\ finished # <<>>

\* C7: `finished` only grows: no call removes a name, the sequence of a name
\* before a call is a prefix of the one after it, and the records already in
\* it keep their name, start_time, end_time and duration.
C7_FinishedOnlyGrows ==
    [][ /\ DOMAIN finished \subseteq DOMAIN finished'
        /\ \A n \in DOMAIN finished :
                /\ Len(finished[n]) <= Len(finished'[n])
                /\ SubSeq(finished'[n], 1, Len(finished[n])) = finished[n]
                /\ \A i \in DOMAIN finished[n] :
                        heap'[finished[n][i]] = heap[finished[n][i]] ]_vars

\* finished_events was read after the sequence of a name grew to two records
C7_Witness ==
    /\ last.op = "finished_events"
    /\ \E n \in DOMAIN finished : Len(finished[n]) = 2

\* C8: what finished_events returns has one key for each name with a
\* successfully stopped event and no other key, and the sequence of a name
\* holds the records of that name in the order in which their stops
\* succeeded.
C8_FinishedGroupsInStopOrder ==
    last.op = "finished_events" =>
        /\ DOMAIN last.ret = StoppedNames
        /\ \A n \in DOMAIN last.ret : last.ret[n] = StoppedRefs(n)

\* finished_events was read after two events of one name were stopped in the
\* opposite of the order they were started in
C8_Witness ==
    /\ last.op = "finished_events"
    /\ \E n \in DOMAIN last.ret :
            /\ Len(last.ret[n]) = 2
            /\ last.ret[n][1] > last.ret[n][2]

\* the durations of the finished events of name n, in the order of `finished`
FinishedDurations(n) ==
    [i \in 1..Len(finished[n]) |-> TheValue(heap[finished[n][i]].duration)]

\* the sum of the numbers of ds
SumOf(ds) ==
    LET S[i \in 0..Len(ds)] == IF i = 0 THEN 0 ELSE S[i - 1] + ds[i]
    IN  S[Len(ds)]

\* the rational q is the number num / den
IsQuotient(q, num, den) == q.den > 0 /\ q.num * den = num * q.den

\* the rearrangements of ds in ascending order
Ascending(ds) ==
    LET N == Len(ds)
        perms == { p \in [1..N -> 1..N] : \A i, j \in 1..N : i # j => p[i] # p[j] }
    IN  { [i \in 1..N |-> ds[p[i]]] : p \in
            { q \in perms : \A i \in 1..(N - 1) : ds[q[i]] <= ds[q[i + 1]] } }

\* q is the median of ds: the middle one of the ascending values, the mean
\* of the two middle ones when there is an even number of them
IsMedian(q, ds) ==
    LET N == Len(ds)
    IN  \A sd \in Ascending(ds) :
            IF N % 2 = 1
            THEN IsQuotient(q, sd[(N + 1) \div 2], 1)
            ELSE IsQuotient(q, sd[N \div 2] + sd[N \div 2 + 1], 2)

\* C9: for a name with exactly one finished event, finished_events_stats
\* returns a summary whose only key is `value`, and the value is the number
\* that event's duration is.
C9_SingleEventSummary ==
    last.op = "finished_events_stats" =>
        \A n \in DOMAIN finished :
            Len(finished[n]) = 1 =>
                /\ n \in DOMAIN last.ret
                /\ DOMAIN last.ret[n] = {"value"}
                /\ IsQuotient(last.ret[n].value, FinishedDurations(n)[1], 1)

\* the statistics were read with one name holding a single event of a
\* duration that is not zero, and another name holding more
C9_Witness ==
    /\ last.op = "finished_events_stats"
    /\ \E n, m \in DOMAIN finished :
            /\ Len(finished[n]) = 1
            /\ FinishedDurations(n)[1] > 1
            /\ Len(finished[m]) >= 2

\* C10: for a name with N >= 2 finished events, finished_events_stats returns
\* a summary whose count (the key `len`) is N, whose min and max are the
\* smallest and the largest duration, whose mean is the sum of the durations
\* over N and whose median is the middle value of the ascending durations
\* (the mean of the two middle ones for an even N), over all the events of
\* the name finished so far.
C10_AggregateSummary ==
    last.op = "finished_events_stats" =>
        \A n \in DOMAIN finished :
            LET ds == FinishedDurations(n)
                N == Len(ds)
                st == last.ret[n]
            IN  N >= 2 =>
                    /\ st.len = N
                    /\ st.min \in Range(ds)
                    /\ \A i \in 1..N : st.min <= ds[i]
                    /\ st.max \in Range(ds)
                    /\ \A i \in 1..N : st.max >= ds[i]
                    /\ IsQuotient(st.mean, SumOf(ds), N)
                    /\ IsMedian(st.median, ds)

\* the statistics were read with a name holding three events whose durations
\* differ, are not in ascending order and do not sum to a multiple of three
C10_Witness ==
    /\ last.op = "finished_events_stats"
    /\ \E n \in DOMAIN finished :
            LET ds == FinishedDurations(n)
            IN  /\ Len(ds) = 3
                /\ ds[2] < ds[3]
                /\ ds[3] < ds[1]
                /\ SumOf(ds) % 3 # 0
                /\ last.ret[n].len = 3

\* the sum of the squares of N * d - (sum of ds) over the d of ds: N * N times
\* the sum of the squared deviations from the mean
ScaledSquaredDeviations(ds) ==
    LET N == Len(ds)
        S[i \in 0..N] ==
            IF i = 0 THEN 0
            ELSE S[i - 1] + (N * ds[i] - SumOf(ds)) * (N * ds[i] - SumOf(ds))
    IN  S[N]

\* C11: for a name with N >= 2 finished events the reported variance is the
\* population variance, the sum of the squared deviations from the mean over
\* N, and the reported standard deviation is its square root.
C11_PopulationVariance ==
    last.op = "finished_events_stats" =>
        \A n \in DOMAIN finished :
            LET ds == FinishedDurations(n)
                N == Len(ds)
            IN  N >= 2 =>
                    /\ IsQuotient(last.ret[n].variance,
                                  ScaledSquaredDeviations(ds), N * N * N)
                    /\ IsQuotient(last.ret[n].stdev.radicand,
                                  ScaledSquaredDeviations(ds), N * N * N)

\* C12: the duration a stop records is the whole elapsed time
\* end_time - start_time in microseconds, whole seconds included.
C12_DurationIsElapsedTime ==
    \A ref \in DOMAIN heap :
        heap[ref].end_time # None =>
            TheValue(heap[ref].duration) =
                TheValue(heap[ref].end_time) - heap[ref].start_time

C14_StatsIsPure ==
    /\ [][ last'.op = "finished_events_stats" =>
                /\ running' = running
                /\ finished' = finished
                /\ heap' = heap ]_vars
    /\ [](last.op = "finished_events_stats" => ~ENABLED (Stats /\ last' # last))

\* the statistics were read with one event finished and another running
C14_Witness ==
    /\ last.op = "finished_events_stats"
    /\ finished # <<>>
    /\ running # <<>>

\* the number of durations a summary was computed from
SummaryCount(st) ==
    IF DOMAIN st = {} THEN 0
    ELSE IF DOMAIN st = {"value"} THEN 1
    ELSE st.len

\* C15: the keys of what finished_events_stats returns are the names with a
\* finished event: a name whose events are all running is not among them, and
\* the summary of a name counts its finished events only.
C15_StatsOfFinishedOnly ==
    last.op = "finished_events_stats" =>
        /\ DOMAIN last.ret = DOMAIN finished
        /\ DOMAIN last.ret = StoppedNames
        /\ \A t \in DOMAIN running :
                heap[running[t]].name \notin StoppedNames =>
                    heap[running[t]].name \notin DOMAIN last.ret
        /\ \A n \in DOMAIN last.ret :
                SummaryCount(last.ret[n]) = Len(StoppedRefs(n))

\* the statistics were read while a name had one event finished and one
\* running
C15_Witness ==
    /\ last.op = "finished_events_stats"
    /\ \E t \in DOMAIN running :
            /\ heap[running[t]].name \in DOMAIN last.ret
            /\ DOMAIN last.ret[heap[running[t]].name] = {"value"}

\* C19: every name of `finished` has at least one record, and no summary that
\* finished_events_stats returns is the empty one.
C19_NoEmptySequence ==
    /\ \A n \in DOMAIN finished : Len(finished[n]) >= 1
    /\ last.op = "finished_events_stats" =>
            \A n \in DOMAIN last.ret : DOMAIN last.ret[n] # {}

\* the statistics were read with both names holding finished events
C19_Witness ==
    /\ last.op = "finished_events_stats"
    /\ DOMAIN last.ret = Names

\* the number of places that refer to the event record ref
Places(ref) ==
    Cardinality({ t \in DOMAIN running : running[t] = ref })
    + Cardinality({ <<n, i>> \in (DOMAIN finished) \X (1..Len(heap)) :
                        i <= Len(finished[n]) /\ finished[n][i] = ref })

\* the total length of the sequences of `finished`
RECURSIVE TotalFinished(_)
TotalFinished(names) ==
    IF names = {} THEN 0
    ELSE LET n == CHOOSE x \in names : TRUE
         IN  Len(finished[n]) + TotalFinished(names \ {n})

\* C20: every record a start created is in one place, under its token in
\* `running` or once in the `finished` sequence of its name, so the number of
\* starts is the size of `running` plus the lengths of the `finished`
\* sequences; and a call that is not a stop of its token leaves a running
\* event in `running`.
C20_Conservation ==
    /\ [](/\ Len(heap) = Len(start_log)
          /\ \A ref \in DOMAIN heap :
                /\ Places(ref) = 1
                /\ \/ /\ start_log[ref] \in DOMAIN running
                      /\ running[start_log[ref]] = ref
                   \/ /\ heap[ref].name \in DOMAIN finished
                      /\ ref \in Range(finished[heap[ref].name])
          /\ Len(start_log) =
                Cardinality(DOMAIN running) + TotalFinished(DOMAIN finished))
    /\ [][ \A t \in DOMAIN running :
                (last'.op = "stop" /\ last'.arg = t)
                \/ (t \in DOMAIN running' /\ running'[t] = running[t]) ]_vars

\* one event has finished, and the other is still running after a stop of the
\* finished one's token was tried again
C20_Witness ==
    /\ Cardinality(DOMAIN running) = 1
    /\ Len(stop_log) = 1
    /\ last.op = "stop"
    /\ last.ret = None

\* the thread t has come to the end of its call
Done(t) == frames[t].pc = "done"

\* C16: two stop calls on two distinct running tokens, interleaved read by
\* read and write by write, both succeed: each returns the record started
\* under its token and both records are in the `finished` sequence of their
\* name once both calls are over, also when the two records share a name
\* that had no finished event.
C16_DistinctStopsBothSucceed ==
    \A t, u \in Threads :
        (/\ t # u
         /\ frames[t].op = "stop" /\ frames[u].op = "stop"
         /\ frames[t].arg # frames[u].arg
         /\ Done(t) /\ Done(u)) =>
            /\ frames[t].raised = None
            /\ frames[t].ret # None
            /\ LET ref == TheValue(frames[t].ret)
               IN  /\ start_log[ref] = frames[t].arg
                   /\ heap[ref].name \in DOMAIN finished
                   /\ ref \in Range(finished[heap[ref].name])

\* C17: two interleaved stop calls on the same running token raise nothing:
\* once both are over, one has returned the finalized record, the other has
\* returned None, and the record is once in `finished`.
C17_SameTokenStoppedOnce ==
    \A t, u \in Threads :
        (/\ t # u
         /\ frames[t].op = "stop" /\ frames[u].op = "stop"
         /\ frames[t].arg = frames[u].arg
         /\ Done(t) /\ Done(u)) =>
            /\ frames[t].raised = None
            /\ frames[u].raised = None
            /\ (frames[t].ret = None) # (frames[u].ret = None)
            /\ \A ref \in frames[t].ret \cup frames[u].ret :
                    /\ heap[ref].end_time # None
                    /\ heap[ref].duration # None
                    /\ Places(ref) = 1
                    /\ heap[ref].name \in DOMAIN finished
                    /\ ref \in Range(finished[heap[ref].name])

\* `finished` as it was before the stop of the thread u, and as it is once
\* that stop is over: the events stopped before the threads ran, and the
\* event of u's token appended to those of its name
FinishedBefore(u) ==
    LET earlier == { stop_log[i][2] : i \in { j \in DOMAIN stop_log :
                                                stop_log[j][1] # frames[u].arg } }
        names == { heap[ref].name : ref \in earlier }
        Earlier(ref) == ref \in earlier
    IN  [n \in names |-> SelectSeq(StoppedRefs(n), Earlier)]

FinishedAfter(u) ==
    LET ref == CHOOSE r \in DOMAIN start_log : start_log[r] = frames[u].arg
    IN  save_finished_event(FinishedBefore(u), ref, heap[ref].name)

\* two dicts of summaries are the same dict
SameStats(a, b) ==
    /\ DOMAIN a = DOMAIN b
    /\ \A n \in DOMAIN a :
            /\ DOMAIN a[n] = DOMAIN b[n]
            /\ \A k \in DOMAIN a[n] : a[n][k] = b[n][k]

\* C18: a finished_events_stats call that runs while a stop call runs raises
\* nothing and returns the summaries of `finished` as it was before the stop
\* or as it is after the stop; no name has the summary of an empty list.
C18_StatsDuringStopIsSnapshot ==
    \A t, u \in Threads :
        (/\ frames[t].op = "finished_events_stats"
         /\ frames[u].op = "stop"
         /\ Done(t)) =>
            /\ frames[t].raised = None
            /\ \A n \in DOMAIN frames[t].ret : DOMAIN frames[t].ret[n] # {}
            /\ \/ SameStats(frames[t].ret,
                            finished_events_stats(impl, heap, FinishedBefore(u)))
               \/ /\ frames[u].pc \in {"save", "new_list", "getitem", "append", "done"}
                  /\ SameStats(frames[t].ret,
                               finished_events_stats(impl, heap, FinishedAfter(u)))

====
